---- MODULE Spec2Model ----
(***************************************************************************)
(* Model of the scraping core of LCurk/web-scraping-project                *)
(* (src/scraper.py): run_scraper and the three collection passes           *)
(* collect_products, collect_reviews and collect_testimonials, with the    *)
(* text functions they apply to the DOM text of a card or block.           *)
(*                                                                         *)
(* A Python str is modelled as a sequence of one-character strings, so     *)
(* that strip, split, lower, replace, len, the "in" test and the two       *)
(* regular expressions are computed character by character.                *)
(***************************************************************************)
EXTENDS Integers, Sequences, FiniteSets, TLC

(***************************************************************************)
(* Characters and the str methods the scraper uses                         *)
(***************************************************************************)

\* the whitespace str.strip() removes and \s matches
Whitespace == {" ", "\n", "\t"}

\* the characters \d matches
DigitChars == <<"0", "1", "2", "3", "4", "5", "6", "7", "8", "9">>

DigitSet == {DigitChars[i] : i \in 1..10}

\* int() of one digit character
DigitVal(c) == (CHOOSE i \in 1..10 : DigitChars[i] = c) - 1

\* the character class [$€£] of the price pattern
CurrencySymbols == {"$", "€", "£"}

UpperChars == <<"A", "B", "C", "D", "E", "F", "G", "H", "I", "J", "K", "L", "M",
                "N", "O", "P", "Q", "R", "S", "T", "U", "V", "W", "X", "Y", "Z">>

LowerChars == <<"a", "b", "c", "d", "e", "f", "g", "h", "i", "j", "k", "l", "m",
                "n", "o", "p", "q", "r", "s", "t", "u", "v", "w", "x", "y", "z">>

LowerChar(c) ==
    IF \E i \in 1..26 : UpperChars[i] = c
    THEN LowerChars[CHOOSE i \in 1..26 : UpperChars[i] = c]
    ELSE c

\* str.lower()
lower(s) == [i \in 1..Len(s) |-> LowerChar(s[i])]

RECURSIVE LStrip(_)
LStrip(s) == IF s # <<>> /\ s[1] \in Whitespace THEN LStrip(Tail(s)) ELSE s

RECURSIVE RStrip(_)
RStrip(s) ==
    IF s # <<>> /\ s[Len(s)] \in Whitespace
    THEN RStrip(SubSeq(s, 1, Len(s) - 1))
    ELSE s

\* str.strip()
strip(s) == RStrip(LStrip(s))

\* str.split(sep) for a one-character separator: always at least one piece
RECURSIVE split(_, _)
split(s, sep) ==
    IF \A i \in 1..Len(s) : s[i] # sep
    THEN <<s>>
    ELSE LET k == CHOOSE i \in 1..Len(s) :
                      s[i] = sep /\ \A j \in 1..(i - 1) : s[j] # sep
         IN  <<SubSeq(s, 1, k - 1)>> \o split(SubSeq(s, k + 1, Len(s)), sep)

\* str.replace(old, new) for one-character old and new
replace(s, old, new) == [i \in 1..Len(s) |-> IF s[i] = old THEN new ELSE s[i]]

\* the test  sub in s
contains(sub, s) ==
    \E i \in 1..(Len(s) - Len(sub) + 1) :
        \A j \in 1..Len(sub) : s[i + j - 1] = sub[j]

\* max(lines, key=len): the first of the longest lines
max_by_len(lines) ==
    lines[CHOOSE i \in 1..Len(lines) :
              /\ \A j \in 1..Len(lines) : Len(lines[j]) <= Len(lines[i])
              /\ \A j \in 1..(i - 1) : Len(lines[j]) < Len(lines[i])]

\* the index of the first character at or after i that is not in Class
RECURSIVE SkipWhile(_, _, _)
SkipWhile(s, i, Class) ==
    IF i <= Len(s) /\ s[i] \in Class THEN SkipWhile(s, i + 1, Class) ELSE i

(***************************************************************************)
(* The regular expressions                                                 *)
(***************************************************************************)

\* the result of a failed re.search
NoMatch == [found |-> FALSE, group |-> <<>>]

\* the pattern [$€£]?\s*\d+\.\d{2} tried at position i: the index just
\* past the match, or 0 when the pattern does not match at i
PriceMatchEnd(s, i) ==
    LET a == IF i <= Len(s) /\ s[i] \in CurrencySymbols THEN i + 1 ELSE i
        b == SkipWhile(s, a, Whitespace)
        c == SkipWhile(s, b, DigitSet)
    IN  IF /\ c > b
           /\ c + 2 <= Len(s)
           /\ s[c] = "."
           /\ s[c + 1] \in DigitSet
           /\ s[c + 2] \in DigitSet
        THEN c + 3
        ELSE 0

\* mutant of search_price: the match at the rightmost position is taken
search_price_last(s) ==
    IF \A i \in 1..Len(s) : PriceMatchEnd(s, i) = 0
    THEN NoMatch
    ELSE LET k == CHOOSE i \in 1..Len(s) :
                      /\ PriceMatchEnd(s, i) # 0
                      /\ \A j \in (i + 1)..Len(s) : PriceMatchEnd(s, j) = 0
         IN  [found |-> TRUE, group |-> SubSeq(s, k, PriceMatchEnd(s, k) - 1)]

\* re.search(r'[$€£]?\s*\d+\.\d{2}', raw_text): the match at the leftmost
\* position where the pattern matches
search_price(s) ==
    IF \A i \in 1..Len(s) : PriceMatchEnd(s, i) = 0
    THEN NoMatch
    ELSE LET k == CHOOSE i \in 1..Len(s) :
                      /\ PriceMatchEnd(s, i) # 0
                      /\ \A j \in 1..(i - 1) : PriceMatchEnd(s, j) = 0
         IN  [found |-> TRUE, group |-> SubSeq(s, k, PriceMatchEnd(s, k) - 1)]

\* the pattern (20\d{2}) tried at position i of a line
YearMatchAt(line, i) ==
    /\ i + 3 <= Len(line)
    /\ line[i] = "2"
    /\ line[i + 1] = "0"
    /\ line[i + 2] \in DigitSet
    /\ line[i + 3] \in DigitSet

\* re.search(r"(20\d{2})", line)
search_year(line) ==
    IF \A i \in 1..Len(line) : ~YearMatchAt(line, i)
    THEN NoMatch
    ELSE LET k == CHOOSE i \in 1..Len(line) :
                      /\ YearMatchAt(line, i)
                      /\ \A j \in 1..(i - 1) : ~YearMatchAt(line, j)
         IN  [found |-> TRUE, group |-> SubSeq(line, k, k + 3)]

\* int() of a string of digits
RECURSIVE int(_)
int(s) ==
    IF s = <<>> THEN 0
    ELSE 10 * int(SubSeq(s, 1, Len(s) - 1)) + DigitVal(s[Len(s)])

(***************************************************************************)
(* Program constants                                                       *)
(***************************************************************************)

\* page_index = 1
FIRST_PAGE == 1

\* if review_year < 2023
CUTOFF_YEAR == 2023

\* min(len(stars), 5)
MAX_RATING == 5

\* extract_star_rating(...) or 5
DEFAULT_RATING == 5

\* len(text) < 10
MIN_TEXT_LEN == 10

\* len(text) > 400
MAX_TEXT_LEN == 400

\* title.lower() != "log in"
LOG_IN == <<"l", "o", "g", " ", "i", "n">>

\* price = ... else "N/A"
NOT_AVAILABLE == <<"N", "/", "A">>

\* "Take a look" in text
TAKE_A_LOOK == <<"T", "a", "k", "e", " ", "a", " ", "l", "o", "o", "k">>

\* "collection" in text
COLLECTION == <<"c", "o", "l", "l", "e", "c", "t", "i", "o", "n">>

(***************************************************************************)
(* Bounds of the model                                                     *)
(***************************************************************************)

\* cards on one product page
MaxCards == 2

\* review blocks the site ever loads
MaxBlocks == 3

\* testimonial cards in the final scan
MaxTestimonialCards == 2

\* distinct document heights the testimonials page can report
MaxHeight == 2

\* characters of an input of the price search checked on its own
MaxStrLen == 6

SeqsUpTo(S, n) == UNION {[1..k -> S] : k \in 0..n}

Min(a, b) == IF a <= b THEN a ELSE b

\* n copies of the character c
Repeat(c, n) == [i \in 1..n |-> c]

(***************************************************************************)
(* The DOM the browser session shows                                       *)
(*                                                                         *)
(* An element is [text, stale, stars, lookup_fails]: reading .text of a    *)
(* stale element raises; stars is the number of star paths under the       *)
(* element, and lookup_fails tells that find_elements raises on it.        *)
(***************************************************************************)

Element(text, stars) ==
    [text |-> text, stale |-> FALSE, stars |-> stars, lookup_fails |-> FALSE]

StaleElement ==
    [text |-> <<>>, stale |-> TRUE, stars |-> 0, lookup_fails |-> FALSE]

WidgetPriced ==
    <<"W", "i", "d", "g", "e", "t", "\n", "$", "1", "2", ".", "9", "9", " ",
      "i", "n", " ", "s", "t", "o", "c", "k">>

WidgetOutOfStock ==
    <<"W", "i", "d", "g", "e", "t", "\n", "o", "u", "t", " ", "o", "f", " ",
      "s", "t", "o", "c", "k">>

GadgetBare == <<"G", "a", "d", "g", "e", "t", "\n", " ", "9", ".", "5", "0", "\n">>

LogInCard == <<"L", "o", "g", " ", "I", "n">>

\* the cards a product page is made of
ProductCards ==
    { Element(WidgetOutOfStock, 0), Element(LogInCard, 0), StaleElement }

Jan2023 == <<"J", "a", "n", " ", "2", "0", "2", "3">>

Dec2022 == <<"D", "e", "c", " ", "2", "0", "2", "2">>

Mar2024 ==
    <<"A", "n", "n", "\n", "M", "a", "r", " ", "2", "0", "2", "4", "\n",
      "G", "r", "e", "a", "t", " ", "p", "r", "o", "d", "u", "c", "t">>

Undated == <<"N", "o", " ", "d", "a", "t", "e">>

\* the blocks the reviews container is made of
ReviewBlocks ==
    { [Element(Jan2023, 4) EXCEPT !.lookup_fails = TRUE],
      Element(Dec2022, 4),
      Element(Mar2024, 3),
      Element(Undated, 2),
      StaleElement }

NineChars == <<"T", "o", "o", " ", "s", "h", "o", "r", "t">>

TenChars == <<"T", "e", "n", "\n", "c", "h", "a", "r", "s", "!">>

BoilerLook ==
    <<"T", "a", "k", "e", " ", "a", " ", "l", "o", "o", "k", " ", "a", "t",
      " ", "t", "h", "i", "s">>

BoilerCollection ==
    <<"O", "u", "r", " ", "n", "e", "w", " ", "c", "o", "l", "l", "e", "c",
      "t", "i", "o", "n">>

\* the cards the testimonials page is made of
TestimonialCards ==
    { Element(NineChars, 5),
      Element(TenChars, 0),
      Element(Repeat("x", MAX_TEXT_LEN), 9),
      Element(Repeat("y", MAX_TEXT_LEN + 1), 1),
      Element(BoilerLook, 2),
      Element(BoilerCollection, 2),
      StaleElement }

Gizmo ==
    <<"G", "i", "z", "m", "o", "\n", "€", " ", "5", ".", "0", "0", " ",
      "e", "a", "c", "h">>

\* a catalogue of three products, for collect_products run on its own
CatalogCards ==
    { Element(WidgetOutOfStock, 0), Element(GadgetBare, 0), Element(Gizmo, 0),
      Element(LogInCard, 0), Element(<<" ">>, 0) }

\* the characters of the card texts the price search is run on
PriceAlphabet == {"$", " ", "7", "."}

\* the card texts the price search is run on
PriceInputs ==
    SeqsUpTo(PriceAlphabet, MaxStrLen) \cup {WidgetPriced, WidgetOutOfStock}

\* the elements of each kind that a web site can show: "shop" is the site
\* run_scraper is run against, "catalogue" has the larger product list
SiteProducts(name) == IF name = "catalogue" THEN CatalogCards ELSE ProductCards

SiteReviews(name) == ReviewBlocks

SiteTestimonials(name) == TestimonialCards

(***************************************************************************)
(* extract_star_rating and the parsing of one card or block                *)
(***************************************************************************)

\* mutant of extract_star_rating: the count is not capped
extract_star_rating_uncapped(container) ==
    IF container.lookup_fails THEN 0 ELSE container.stars

\* extract_star_rating(container)
extract_star_rating(container) ==
    IF container.lookup_fails THEN 0 ELSE Min(container.stars, MAX_RATING)

\* x or 5
or_default(x) == IF x = 0 THEN DEFAULT_RATING ELSE x

\* collect_products, one card: raw_text, title and price
parse_card(text) ==
    LET raw_text    == strip(text)
        lines       == split(raw_text, "\n")
        price_match == search_price(raw_text)
    IN  [title |-> lines[1],
         price |-> IF price_match.found THEN price_match.group ELSE NOT_AVAILABLE]

\* the record of every card text of the two product lists, computed once
ParsedCards ==
    [t \in {e.text : e \in CatalogCards \cup ProductCards} |-> parse_card(t)]

\* the record of a card text: looked up when computed before
parsed_card(text) ==
    IF text \in DOMAIN ParsedCards THEN ParsedCards[text] ELSE parse_card(text)

\* mutant of valid_title: the artifact is compared without lower()
valid_title_case_sensitive(title) == title # <<>> /\ title # LOG_IN

\* if title and title.lower() != "log in"
valid_title(title) == title # <<>> /\ lower(title) # LOG_IN

\* mutant of new_title: the title is compared with the last record only
new_title_last_only(title, list) ==
    list = <<>> \/ list[Len(list)].title # title

\* not any(p["title"] == title for p in products)
new_title(title, list) == ~\E i \in 1..Len(list) : list[i].title = title

\* mutant of new_text: the text is compared with the last record only
new_text_last_only(text, list) ==
    list = <<>> \/ list[Len(list)].text # text

\* not any(r["text"] == text for r in list)
new_text(text, list) == ~\E i \in 1..Len(list) : list[i].text = text

\* collect_reviews, one block: the date line, its year, the text and rating
parse_block(block) ==
    LET lines  == split(strip(block.text), "\n")
        dated  == {i \in 1..Len(lines) : search_year(lines[i]).found}
        k      == CHOOSE i \in dated : \A j \in dated : i <= j
    IN  IF dated = {}
        THEN [dated |-> FALSE, year |-> 0, date |-> <<>>, text |-> <<>>, rating |-> 0]
        ELSE [dated  |-> TRUE,
              year   |-> int(search_year(lines[k]).group),
              date   |-> lines[k],
              text   |-> max_by_len(lines),
              rating |-> or_default(extract_star_rating(block))]

\* the fields of every block the reviews page can show, computed once
ParsedBlocks == [b \in ReviewBlocks |-> parse_block(b)]

\* mutant of too_old: the cutoff is one year early
too_old_off_by_one(review_year) == review_year < CUTOFF_YEAR - 1

\* if review_year < 2023
too_old(review_year) == review_year < CUTOFF_YEAR

\* collect_testimonials, one card: text = card.text.replace("\n", " ").strip()
testimonial_text(card) == strip(replace(card.text, "\n", " "))

\* mutant of rejected: the test for "collection" is missing
rejected_without_collection(text) ==
    \/ contains(TAKE_A_LOOK, text)
    \/ Len(text) < MIN_TEXT_LEN
    \/ Len(text) > MAX_TEXT_LEN

\* mutant of rejected: the two length bounds are excluded
rejected_exclusive(text) ==
    \/ contains(TAKE_A_LOOK, text)
    \/ contains(COLLECTION, text)
    \/ Len(text) <= MIN_TEXT_LEN
    \/ Len(text) >= MAX_TEXT_LEN

\* the condition under which collect_testimonials skips a card
rejected(text) ==
    \/ contains(TAKE_A_LOOK, text)
    \/ contains(COLLECTION, text)
    \/ Len(text) < MIN_TEXT_LEN
    \/ Len(text) > MAX_TEXT_LEN

(***************************************************************************)
(* State                                                                   *)
(***************************************************************************)

VARIABLES
    pc,                   \* the statement run_scraper is at
    driver,               \* "none", "open" or "quit": the browser session
    quit_calls,           \* how many times driver.quit() was called
    raised,               \* an exception is propagating out of the try block
    session_valid,        \* the browser session still answers commands
    page_index,           \* collect_products: the page being fetched
    product_cards,        \* collect_products: the cards found on the page
    card_i,               \* the position of the for loop over cards or blocks
    newly_added,          \* collect_products: records added from this page
    products,             \* collect_products: the records accepted so far
    fetched,              \* history: the page numbers fetched, in order
    page_titles,          \* history: the valid titles on each fetched page
    dom_reviews,          \* the blocks the reviews container holds now
    review_blocks,        \* collect_reviews: the blocks found by this scan
    reviews_data,         \* collect_reviews: the records accepted so far
    reached_old_reviews,  \* collect_reviews: the cutoff flag
    count_before,         \* collect_reviews: len(review_blocks) at the click
    scans,                \* history: the scans collect_reviews has started
    cutoff_seen,          \* history: a block dated before 2023 was read
    last_height,          \* collect_testimonials: the height last measured
    new_height,           \* collect_testimonials: the height just measured
    cards,                \* collect_testimonials: the cards of the final scan
    testimonials,         \* collect_testimonials: the records accepted so far
    returned,             \* what each finished pass returned
    results,              \* run_scraper: the results dict, once bound
    documents,            \* the documents written to scraped_data.json
    site                  \* the web site the session is pointed at

session_vars  == <<driver, quit_calls, raised, session_valid>>
product_vars  == <<page_index, product_cards, newly_added, products, fetched,
                   page_titles>>
review_vars   == <<dom_reviews, review_blocks, reviews_data,
                   reached_old_reviews, count_before, cutoff_seen, scans>>
testimonial_vars == <<last_height, new_height, cards, testimonials>>
output_vars   == <<returned, results, documents>>

vars == <<pc, card_i, session_vars, product_vars, review_vars,
          testimonial_vars, output_vars, site>>

\* the value of a name that is not bound
Unbound == [bound |-> FALSE, value |-> <<>>]

\* the results dict before it is bound
NoResults ==
    [bound |-> FALSE,
     value |-> [products |-> <<>>, reviews |-> <<>>, testimonials |-> <<>>]]

Bound(v) == [bound |-> TRUE, value |-> v]

\* the locals of the three passes before any of them runs
NoLocals ==
    /\ page_index = 0
    /\ product_cards = <<>>
    /\ card_i = 0
    /\ newly_added = 0
    /\ products = <<>>
    /\ fetched = <<>>
    /\ page_titles = <<>>
    /\ dom_reviews = <<>>
    /\ review_blocks = <<>>
    /\ reviews_data = <<>>
    /\ reached_old_reviews = FALSE
    /\ count_before = 0
    /\ cutoff_seen = FALSE
    /\ scans = 0
    /\ last_height = 0
    /\ new_height = 0
    /\ cards = <<>>
    /\ testimonials = <<>>

\* nothing returned, nothing written
NoOutput ==
    /\ returned = [products |-> Unbound, reviews |-> Unbound,
                   testimonials |-> Unbound]
    /\ results = NoResults
    /\ documents = <<>>

\* run_scraper is called
Init ==
    /\ pc = "start"
    /\ driver = "none"
    /\ quit_calls = 0
    /\ raised = FALSE
    /\ session_valid = TRUE
    /\ NoLocals
    /\ NoOutput
    /\ site = "shop"

(***************************************************************************)
(* run_scraper: the session                                                *)
(***************************************************************************)

\* the locals of collect_products go when its frame is left
DropProductLocals ==
    /\ page_index' = 0
    /\ product_cards' = <<>>
    /\ newly_added' = 0
    /\ products' = <<>>
    /\ fetched' = <<>>
    /\ page_titles' = <<>>

\* the locals of collect_reviews go when its frame is left
DropReviewLocals ==
    /\ dom_reviews' = <<>>
    /\ review_blocks' = <<>>
    /\ reviews_data' = <<>>
    /\ reached_old_reviews' = FALSE
    /\ count_before' = 0
    /\ cutoff_seen' = FALSE
    /\ scans' = 0

\* the locals of collect_testimonials go when its frame is left
DropTestimonialLocals ==
    /\ last_height' = 0
    /\ new_height' = 0
    /\ cards' = <<>>
    /\ testimonials' = <<>>

\* mutant of Raise: the try block has no finally clause
Raise_without_finally ==
    /\ pc' = "failed"
    /\ raised' = TRUE
    /\ card_i' = 0
    /\ DropProductLocals
    /\ DropReviewLocals
    /\ DropTestimonialLocals

\* an exception raised inside the try block of run_scraper: the frame of
\* the running pass is left and control goes to the finally clause with
\* the exception pending
Raise ==
    /\ pc' = "finally"
    /\ raised' = TRUE
    /\ card_i' = 0
    /\ DropProductLocals
    /\ DropReviewLocals
    /\ DropTestimonialLocals

\* mutant of InitBrowser: the failure is caught and run_scraper goes on
\* without a session
InitBrowser_failure_ignored ==
    /\ pc = "start"
    /\ \/ driver' = "open"
       \/ driver' = driver
    /\ pc' = "p_start"
    /\ UNCHANGED <<card_i, quit_calls, raised, session_valid, product_vars,
                   review_vars, testimonial_vars, output_vars, site>>

\* driver = init_browser(), before the try block: either a session is
\* started or the failure leaves run_scraper at once
InitBrowser ==
    /\ pc = "start"
    /\ \/ /\ driver' = "open"
          /\ pc' = "p_start"
       \/ /\ driver' = driver
          /\ pc' = "aborted"
    /\ UNCHANGED <<card_i, quit_calls, raised, session_valid, product_vars,
                   review_vars, testimonial_vars, output_vars, site>>

\* the pcs at which a driver call sits inside a try block that catches
\* Exception: the card and block loops and the load-more control
Guarded == {"p_card", "r_block", "r_loadmore", "t_card"}

\* the browser session becomes invalid while a pass runs: from then on
\* every driver call and every element access raises. Before a call
\* outside a try block the Raise of that call is the same event.
SessionDies ==
    /\ pc \in Guarded
    /\ session_valid
    /\ session_valid' = FALSE
    /\ UNCHANGED <<pc, card_i, driver, quit_calls, raised, product_vars,
                   review_vars, testimonial_vars, output_vars, site>>

\* element.text can be read: the session answers and the element is attached
readable(element) == session_valid /\ ~element.stale

(***************************************************************************)
(* collect_products                                                        *)
(***************************************************************************)

\* history: the valid titles the readable cards of a page carry
titles_on(page) ==
    { parsed_card(page[i].text).title :
        i \in { j \in 1..Len(page) :
                  /\ ~page[j].stale
                  /\ valid_title(parsed_card(page[j].text).title) } }

\* mutant of stop_after_page: a page that added one record stops the pass
stop_after_page_le_one(n_new) == n_new <= 1

\* if newly_added == 0: break
stop_after_page(n_new) == n_new = 0

\* products = [] ; page_index = 1
P_Enter ==
    /\ pc = "p_start"
    /\ products' = <<>>
    /\ page_index' = FIRST_PAGE
    /\ pc' = "p_load"
    /\ UNCHANGED <<card_i, session_vars, product_cards, newly_added, fetched,
                   page_titles, review_vars, testimonial_vars, output_vars, site>>

\* driver.get(page) and find_elements: the session raises, or the page shows
\* some cards; no card ends the loop
P_Load ==
    /\ pc = "p_load"
    /\ \/ Raise
       \/ \E page \in SeqsUpTo(SiteProducts(site), MaxCards) :
            /\ session_valid
            /\ product_cards' = page
            /\ fetched' = Append(fetched, page_index)
            /\ page_titles' = Append(page_titles, titles_on(page))
            /\ newly_added' = 0
            /\ card_i' = 1
            /\ pc' = IF page = <<>> THEN "p_return" ELSE "p_card"
            /\ UNCHANGED <<raised, page_index, products, review_vars,
                           testimonial_vars>>
    /\ UNCHANGED <<driver, quit_calls, session_valid, output_vars, site>>

\* mutant of P_Card: the loop body has no try, so a card whose text cannot
\* be read raises out of collect_products
P_Card_without_except ==
    /\ pc = "p_card"
    /\ LET card == product_cards[card_i]
           rec  == parsed_card(card.text)
       IN  IF ~readable(card)
           THEN /\ Raise
                /\ UNCHANGED <<driver, quit_calls, session_valid>>
           ELSE /\ IF valid_title(rec.title) /\ new_title(rec.title, products)
                   THEN /\ products' = Append(products, rec)
                        /\ newly_added' = newly_added + 1
                   ELSE UNCHANGED <<products, newly_added>>
                /\ card_i' = card_i + 1
                /\ pc' = IF card_i = Len(product_cards)
                         THEN "p_endpage" ELSE "p_card"
                /\ UNCHANGED <<session_vars, page_index, product_cards,
                               fetched, page_titles, review_vars,
                               testimonial_vars>>
    /\ UNCHANGED <<output_vars, site>>

\* one iteration of  for card in product_cards
P_Card ==
    /\ pc = "p_card"
    /\ LET card == product_cards[card_i]
           rec  == parsed_card(card.text)
       IN  IF /\ readable(card)
              /\ valid_title(rec.title)
              /\ new_title(rec.title, products)
           THEN /\ products' = Append(products, rec)
                /\ newly_added' = newly_added + 1
           ELSE UNCHANGED <<products, newly_added>>
    /\ card_i' = card_i + 1
    /\ pc' = IF card_i = Len(product_cards) THEN "p_endpage" ELSE "p_card"
    /\ UNCHANGED <<session_vars, page_index, product_cards, fetched,
                   page_titles, review_vars, testimonial_vars, output_vars, site>>

\* after the for loop: stop on a page that added nothing, else the next page
P_EndPage ==
    /\ pc = "p_endpage"
    /\ IF stop_after_page(newly_added)
       THEN /\ pc' = "p_return"
            /\ UNCHANGED page_index
       ELSE /\ pc' = "p_load"
            /\ page_index' = page_index + 1
    /\ UNCHANGED <<card_i, session_vars, product_cards, newly_added, products,
                   fetched, page_titles, review_vars, testimonial_vars,
                   output_vars, site>>

\* mutant of P_Return: run_scraper calls collect_testimonials next
P_Return_skips_reviews ==
    /\ pc = "p_return"
    /\ returned' = [returned EXCEPT !.products = Bound(products)]
    /\ card_i' = 0
    /\ DropProductLocals
    /\ pc' = "t_open"
    /\ UNCHANGED <<session_vars, review_vars, testimonial_vars, results,
                   documents, site>>

\* return products: the value is kept for the results dict, the locals go
P_Return ==
    /\ pc = "p_return"
    /\ returned' = [returned EXCEPT !.products = Bound(products)]
    /\ card_i' = 0
    /\ DropProductLocals
    /\ pc' = "r_open"
    /\ UNCHANGED <<session_vars, review_vars, testimonial_vars, results,
                   documents, site>>

(***************************************************************************)
(* collect_reviews                                                         *)
(***************************************************************************)

\* history: the block can be read and its date line carries a year before
\* the cutoff
dated_before_cutoff(block) ==
    /\ ~block.stale
    /\ ParsedBlocks[block].dated
    /\ ParsedBlocks[block].year < CUTOFF_YEAR

\* driver.get(reviews): the session raises, or the container shows its
\* first blocks
R_Open ==
    /\ pc = "r_open"
    /\ \/ Raise
       \/ \E blocks \in SeqsUpTo(SiteReviews(site), MaxBlocks) :
            /\ session_valid
            /\ dom_reviews' = blocks
            /\ reviews_data' = <<>>
            /\ reached_old_reviews' = FALSE
            /\ pc' = "r_find"
            /\ UNCHANGED <<raised, card_i, product_vars, review_blocks,
                           count_before, cutoff_seen, scans,
                           testimonial_vars>>
    /\ UNCHANGED <<driver, quit_calls, session_valid, output_vars, site>>

\* while not reached_old_reviews: review_blocks = find_elements(...)
R_Find ==
    /\ pc = "r_find"
    /\ ~reached_old_reviews
    /\ \/ Raise
       \/ /\ session_valid
          /\ review_blocks' = dom_reviews
          /\ scans' = scans + 1
          /\ card_i' = 1
          /\ pc' = IF dom_reviews = <<>> THEN "r_check" ELSE "r_block"
          /\ UNCHANGED <<raised, product_vars, dom_reviews, reviews_data,
                         reached_old_reviews, count_before, cutoff_seen,
                         testimonial_vars>>
    /\ UNCHANGED <<driver, quit_calls, session_valid, output_vars, site>>

\* mutant of R_Block: a block dated before the cutoff is skipped and the
\* loop goes on
R_Block_skips_old ==
    /\ pc = "r_block"
    /\ LET block == review_blocks[card_i]
           rev   == ParsedBlocks[block]
       IN  /\ card_i' = card_i + 1
           /\ pc' = IF card_i = Len(review_blocks) THEN "r_check" ELSE "r_block"
           /\ reviews_data' =
                  IF /\ readable(block)
                     /\ rev.dated
                     /\ ~too_old(rev.year)
                     /\ new_text(rev.text, reviews_data)
                  THEN Append(reviews_data,
                              [date |-> rev.date, text |-> rev.text,
                               rating |-> rev.rating])
                  ELSE reviews_data
    /\ UNCHANGED <<session_vars, product_vars, dom_reviews, review_blocks,
                   reached_old_reviews, count_before, cutoff_seen, scans,
                   testimonial_vars, output_vars, site>>

\* one iteration of  for block in review_blocks
R_Block ==
    /\ pc = "r_block"
    /\ LET block == review_blocks[card_i]
           rev   == ParsedBlocks[block]
           next  == /\ card_i' = card_i + 1
                    /\ pc' = IF card_i = Len(review_blocks)
                             THEN "r_check" ELSE "r_block"
       IN  IF ~readable(block) \/ ~rev.dated
           THEN \* except: continue, or if not review_date: continue
                /\ next
                /\ UNCHANGED <<reviews_data, reached_old_reviews>>
           ELSE IF too_old(rev.year)
           THEN \* reached_old_reviews = True ; break
                /\ reached_old_reviews' = TRUE
                /\ pc' = "r_check"
                /\ UNCHANGED <<card_i, reviews_data>>
           ELSE /\ next
                /\ reviews_data' =
                       IF new_text(rev.text, reviews_data)
                       THEN Append(reviews_data,
                                   [date |-> rev.date, text |-> rev.text,
                                    rating |-> rev.rating])
                       ELSE reviews_data
                /\ UNCHANGED reached_old_reviews
    /\ cutoff_seen' = (cutoff_seen \/ (/\ session_valid
                                       /\ dated_before_cutoff(review_blocks[card_i])))
    /\ UNCHANGED <<session_vars, product_vars, dom_reviews, review_blocks,
                   count_before, scans, testimonial_vars, output_vars, site>>

\* mutant of R_Check: the break after the for loop is missing
R_Check_no_break ==
    /\ pc = "r_check"
    /\ pc' = "r_scroll"
    /\ UNCHANGED <<card_i, session_vars, product_vars, review_vars,
                   testimonial_vars, output_vars, site>>

\* if reached_old_reviews: break
R_Check ==
    /\ pc = "r_check"
    /\ pc' = IF reached_old_reviews THEN "r_return" ELSE "r_scroll"
    /\ UNCHANGED <<card_i, session_vars, product_vars, review_vars,
                   testimonial_vars, output_vars, site>>

\* driver.execute_script(scrollTo), outside the try: a failure propagates
R_Scroll ==
    /\ pc = "r_scroll"
    /\ \/ Raise
       \/ /\ session_valid
          /\ pc' = "r_loadmore"
          /\ UNCHANGED <<raised, card_i, product_vars, review_vars,
                         testimonial_vars>>
    /\ UNCHANGED <<driver, quit_calls, session_valid, output_vars, site>>

\* mutant of R_LoadMore: the wait accepts a count that did not grow
R_LoadMore_wait_not_strict ==
    /\ pc = "r_loadmore"
    /\ \/ /\ pc' = "r_return"
          /\ UNCHANGED <<dom_reviews, count_before>>
       \/ \E more \in SeqsUpTo(SiteReviews(site), MaxBlocks - Len(dom_reviews)) :
            /\ session_valid
            /\ count_before' = Len(review_blocks)
            /\ dom_reviews' = dom_reviews \o more
            /\ Len(dom_reviews') >= count_before'
            /\ pc' = "r_find"
    /\ UNCHANGED <<card_i, session_vars, product_vars, review_blocks,
                   reviews_data, reached_old_reviews, cutoff_seen, scans,
                   testimonial_vars, output_vars, site>>

\* mutant of R_LoadMore: the except clause is missing, so a failed lookup,
\* a failed click and a timed-out wait leave the pass by an exception
R_LoadMore_without_except ==
    /\ pc = "r_loadmore"
    /\ \/ /\ Raise
          /\ UNCHANGED <<driver, quit_calls, session_valid, output_vars, site>>
       \/ \E more \in SeqsUpTo(SiteReviews(site), MaxBlocks - Len(dom_reviews)) :
            /\ session_valid
            /\ more # <<>>
            /\ count_before' = Len(review_blocks)
            /\ dom_reviews' = dom_reviews \o more
            /\ Len(dom_reviews') > count_before'
            /\ pc' = "r_find"
            /\ UNCHANGED <<card_i, session_vars, product_vars, review_blocks,
                           reviews_data, reached_old_reviews, cutoff_seen,
                           scans, testimonial_vars, output_vars, site>>

\* the try block around the load-more control
R_LoadMore ==
    /\ pc = "r_loadmore"
    /\ \/ \* find_element or is_displayed raises, or the control is hidden
          /\ pc' = "r_return"
          /\ UNCHANGED <<dom_reviews, count_before>>
       \/ \* the click raises, or wait.until times out
          /\ count_before' = Len(review_blocks)
          /\ pc' = "r_return"
          /\ UNCHANGED dom_reviews
       \/ \* the container grows past count_before within the wait
          \E more \in SeqsUpTo(SiteReviews(site), MaxBlocks - Len(dom_reviews)) :
            /\ session_valid
            /\ more # <<>>
            /\ count_before' = Len(review_blocks)
            /\ dom_reviews' = dom_reviews \o more
            /\ Len(dom_reviews') > count_before'
            /\ pc' = "r_find"
    /\ UNCHANGED <<card_i, session_vars, product_vars, review_blocks,
                   reviews_data, reached_old_reviews, cutoff_seen, scans,
                   testimonial_vars, output_vars, site>>

\* return reviews_data
R_Return ==
    /\ pc = "r_return"
    /\ returned' = [returned EXCEPT !.reviews = Bound(reviews_data)]
    /\ card_i' = 0
    /\ DropReviewLocals
    /\ pc' = "t_open"
    /\ UNCHANGED <<session_vars, product_vars, testimonial_vars, results,
                   documents, site>>

(***************************************************************************)
(* collect_testimonials                                                    *)
(***************************************************************************)

\* driver.get(testimonials) and the first measure of the document height
T_Open ==
    /\ pc = "t_open"
    /\ \/ Raise
       \/ \E height \in 1..MaxHeight :
            /\ session_valid
            /\ last_height' = height
            /\ testimonials' = <<>>
            /\ pc' = "t_scroll"
            /\ UNCHANGED <<raised, card_i, product_vars, review_vars,
                           new_height, cards>>
    /\ UNCHANGED <<driver, quit_calls, session_valid, output_vars, site>>

\* mutant of scrolling_stops: the test is negated
scrolling_stops_on_change(measured, previous) == measured # previous

\* if new_height == last_height: break
scrolling_stops(measured, previous) == measured = previous

\* one iteration of the scroll loop: scroll, wait, measure, compare
T_Scroll ==
    /\ pc = "t_scroll"
    /\ \/ Raise
       \/ \E measured \in 1..MaxHeight :
            /\ session_valid
            /\ new_height' = measured
            /\ IF scrolling_stops(measured, last_height)
               THEN /\ pc' = "t_find"
                    /\ UNCHANGED last_height
               ELSE /\ pc' = "t_scroll"
                    /\ last_height' = measured
            /\ UNCHANGED <<raised, card_i, product_vars, review_vars, cards,
                           testimonials>>
    /\ UNCHANGED <<driver, quit_calls, session_valid, output_vars, site>>

\* cards = driver.find_elements(...); the two heights are not read after
\* the scroll loop and are dropped here
T_Find ==
    /\ pc = "t_find"
    /\ \/ Raise
       \/ \E found \in SeqsUpTo(SiteTestimonials(site), MaxTestimonialCards) :
            /\ session_valid
            /\ cards' = found
            /\ card_i' = 1
            /\ last_height' = 0
            /\ new_height' = 0
            /\ pc' = IF found = <<>> THEN "t_return" ELSE "t_card"
            /\ UNCHANGED <<raised, product_vars, review_vars, testimonials>>
    /\ UNCHANGED <<driver, quit_calls, session_valid, output_vars, site>>

\* one iteration of  for card in cards
T_Card ==
    /\ pc = "t_card"
    /\ LET card == cards[card_i]
           text == testimonial_text(card)
       IN  IF /\ readable(card)
              /\ ~rejected(text)
              /\ new_text(text, testimonials)
           THEN testimonials' =
                    Append(testimonials,
                           [text   |-> text,
                            rating |-> or_default(extract_star_rating(card))])
           ELSE UNCHANGED testimonials
    /\ card_i' = card_i + 1
    /\ pc' = IF card_i = Len(cards) THEN "t_return" ELSE "t_card"
    /\ UNCHANGED <<session_vars, product_vars, review_vars, last_height,
                   new_height, cards, output_vars, site>>

\* return testimonials: the third value completes the results dict and the
\* try block ends without an exception
T_Return ==
    /\ pc = "t_return"
    /\ returned' = [returned EXCEPT !.testimonials = Bound(testimonials)]
    /\ results' = Bound([products     |-> returned.products.value,
                         reviews      |-> returned.reviews.value,
                         testimonials |-> testimonials])
    /\ card_i' = 0
    /\ DropTestimonialLocals
    /\ pc' = "finally"
    /\ UNCHANGED <<session_vars, product_vars, review_vars, documents, site>>

(***************************************************************************)
(* run_scraper: the finally clause and the output document                 *)
(***************************************************************************)

\* mutant of after_finally: the pending exception is swallowed
after_finally_swallows(pending) == "write"

\* where control goes after the finally clause: a pending exception is
\* raised again, otherwise the statements after the try block run
after_finally(pending) == IF pending THEN "failed" ELSE "write"

\* finally: driver.quit(), which may itself raise
Finally ==
    /\ pc = "finally"
    /\ driver' = "quit"
    /\ quit_calls' = quit_calls + 1
    /\ \/ /\ pc' = after_finally(raised)
          /\ UNCHANGED raised
       \/ /\ pc' = "failed"
          /\ raised' = TRUE
    /\ UNCHANGED <<card_i, session_valid, product_vars, review_vars,
                   testimonial_vars, output_vars, site>>

\* with open("scraped_data.json", "w") as f: json.dump(results, f)
Write ==
    /\ pc = "write"
    /\ documents' = Append(documents, results.value)
    /\ pc' = "done"
    /\ UNCHANGED <<card_i, session_vars, product_vars, review_vars,
                   testimonial_vars, returned, results, site>>

Next ==
    \/ InitBrowser
    \/ P_Enter
    \/ P_Load
    \/ P_Card
    \/ P_EndPage
    \/ P_Return
    \/ R_Open
    \/ R_Find
    \/ R_Block
    \/ R_Check
    \/ R_Scroll
    \/ R_LoadMore
    \/ R_Return
    \/ T_Open
    \/ T_Scroll
    \/ T_Find
    \/ T_Card
    \/ T_Return
    \/ SessionDies
    \/ Finally
    \/ Write

Spec == Init /\ [][Next]_vars

(***************************************************************************)
(* collect_products(driver) called on its own, on a larger catalogue       *)
(***************************************************************************)

InitProducts ==
    /\ pc = "p_start"
    /\ driver = "open"
    /\ quit_calls = 0
    /\ raised = FALSE
    /\ session_valid = TRUE
    /\ NoLocals
    /\ NoOutput
    /\ site = "catalogue"

NextProducts ==
    \/ P_Enter
    \/ P_Load
    \/ P_Card
    \/ P_EndPage
    \/ P_Return

SpecProducts == InitProducts /\ [][NextProducts]_vars

\* the same call with every step of the sequential code eventually taken
SpecProductsFair == SpecProducts /\ WF_vars(NextProducts)

(***************************************************************************)
(* The card loop of collect_products on a first page of one card, the      *)
(* text of the card drawn from PriceInputs                                 *)
(***************************************************************************)

InitPrice ==
    \E text \in PriceInputs :
        /\ pc = "p_card"
        /\ driver = "open"
        /\ quit_calls = 0
        /\ raised = FALSE
        /\ session_valid = TRUE
        /\ page_index = FIRST_PAGE
        /\ product_cards = <<Element(text, 0)>>
        /\ card_i = 1
        /\ newly_added = 0
        /\ products = <<>>
        /\ fetched = <<FIRST_PAGE>>
        /\ page_titles = <<titles_on(<<Element(text, 0)>>)>>
        /\ dom_reviews = <<>>
        /\ review_blocks = <<>>
        /\ reviews_data = <<>>
        /\ reached_old_reviews = FALSE
        /\ count_before = 0
        /\ cutoff_seen = FALSE
        /\ scans = 0
        /\ last_height = 0
        /\ new_height = 0
        /\ cards = <<>>
        /\ testimonials = <<>>
        /\ NoOutput
        /\ site = "shop"

NextPrice ==
    \/ P_Card
    \/ P_EndPage

SpecPrice == InitPrice /\ [][NextPrice]_vars

(***************************************************************************)
(* collect_reviews(driver) called on its own. Every statement of the pass  *)
(* ends: the driver calls return or raise, the sleeps are finite and the   *)
(* wait for more blocks gives up after 10 seconds.                         *)
(***************************************************************************)

InitReviews ==
    /\ pc = "r_open"
    /\ driver = "open"
    /\ quit_calls = 0
    /\ raised = FALSE
    /\ session_valid = TRUE
    /\ NoLocals
    /\ NoOutput
    /\ site = "shop"

NextReviews ==
    \/ R_Open
    \/ R_Find
    \/ R_Block
    \/ R_Check
    \/ R_Scroll
    \/ R_LoadMore
    \/ R_Return

SpecReviews == InitReviews /\ [][NextReviews]_vars /\ WF_vars(NextReviews)

(***************************************************************************)
(* Claims                                                                  *)
(***************************************************************************)

NoDuplicate(keys) ==
    \A i, j \in 1..Len(keys) : i # j => keys[i] # keys[j]

TitlesOf(list) == [i \in 1..Len(list) |-> list[i].title]

TextsOf(list) == [i \in 1..Len(list) |-> list[i].text]

\* every list a state holds: the lists of the running passes, the values
\* the finished passes returned and the lists of the written documents
ProductLists ==
    {products, returned.products.value}
        \cup {documents[d].products : d \in 1..Len(documents)}

ReviewLists ==
    {reviews_data, returned.reviews.value}
        \cup {documents[d].reviews : d \in 1..Len(documents)}

TestimonialLists ==
    {testimonials, returned.testimonials.value}
        \cup {documents[d].testimonials : d \in 1..Len(documents)}

\* C1: in every reachable state of the three passes and in the written
\* document, no two products have the same title, no two reviews the same
\* text and no two testimonials the same text.
C1_DedupKeysUnique ==
    /\ \A list \in ProductLists : NoDuplicate(TitlesOf(list))
    /\ \A list \in ReviewLists : NoDuplicate(TextsOf(list))
    /\ \A list \in TestimonialLists : NoDuplicate(TextsOf(list))

\* C1 witness: after a load-more, the second scan has read two readable
\* blocks of the same text, one of them already accepted by the first scan,
\* and one record is held.
C1_Witness ==
    /\ pc = "r_check"
    /\ count_before = 1
    /\ Len(review_blocks) = 2
    /\ review_blocks[1] = review_blocks[2]
    /\ ~review_blocks[1].stale
    /\ Len(reviews_data) = 1

\* the year a date line shows
YearOf(date) == int(search_year(date).group)

\* C2: every review ever appended by collect_reviews, and so every review
\* returned or written, has a date line whose year is at least 2023.
C2_ReviewsFromCutoff ==
    \A list \in ReviewLists :
        \A i \in 1..Len(list) :
            /\ search_year(list[i].date).found
            /\ YearOf(list[i].date) >= 2023

\* C2 witness: the pass ends having read a block dated before 2023 and
\* holding a review.
C2_Witness ==
    /\ pc = "r_return"
    /\ cutoff_seen
    /\ reviews_data # <<>>

\* C3: once collect_reviews has read a block dated before 2023, no other
\* block is processed, nothing is scrolled or clicked, the pass returns the
\* reviews it held at that moment, and for the blocks "Jan 2023", "Dec 2022"
\* in that order exactly one review, that of "Jan 2023", is produced.
C3_HaltsAtCutoff ==
    /\ [](cutoff_seen => pc \in {"r_check", "r_return"})
    /\ [][cutoff_seen =>
            /\ pc' \in {"r_return", "t_open"}
            /\ pc' = "r_return" => reviews_data' = reviews_data
            /\ pc' = "t_open" => returned'.reviews = Bound(reviews_data)]_vars
    /\ []((/\ pc = "r_return"
           /\ Len(dom_reviews) >= 2
           /\ ~dom_reviews[1].stale /\ dom_reviews[1].text = Jan2023
           /\ ~dom_reviews[2].stale /\ dom_reviews[2].text = Dec2022)
          => /\ Len(reviews_data) = 1
             /\ reviews_data[1].text = Jan2023)

\* C3 witness: the container holds "Jan 2023", "Dec 2022" and a block of 2024
\* after them, the button was clicked once, and the pass returns one review.
C3_Witness ==
    /\ pc = "r_return"
    /\ cutoff_seen
    /\ count_before = 1
    /\ Len(dom_reviews) = 3
    /\ dom_reviews[1].text = Jan2023
    /\ dom_reviews[2].text = Dec2022
    /\ dom_reviews[3].text = Mar2024
    /\ Len(reviews_data) = 1

\* the rating the claim gives an element: 5 for no marker or a failed
\* lookup, the count of markers capped at 5 otherwise
ClaimedRating(el) ==
    IF el.lookup_fails \/ el.stars = 0 THEN 5
    ELSE IF el.stars > 5 THEN 5 ELSE el.stars

\* the first readable element of a scan whose record text is the given one
FirstWithText(els, text, TextOf(_)) ==
    LET having == {i \in 1..Len(els) : ~els[i].stale /\ TextOf(els[i]) = text}
    IN  {els[i] : i \in {j \in having : \A k \in having : j <= k}}

BlockText(block) == ParsedBlocks[block].text

\* C4: every review and testimonial record, held, returned or written, has
\* an integer rating from 0 to 5, and the rating of a record is 5 when its
\* element has no star marker or the marker lookup fails, and the number of
\* markers capped at 5 otherwise.
C4_RatingBounds ==
    /\ \A list \in ReviewLists \cup TestimonialLists :
          \A i \in 1..Len(list) : list[i].rating \in 0..5
    /\ \A k \in 1..Len(testimonials) :
          \A el \in FirstWithText(cards, testimonials[k].text, testimonial_text) :
              testimonials[k].rating = ClaimedRating(el)
    /\ \A k \in 1..Len(reviews_data) :
          \A el \in FirstWithText(review_blocks, reviews_data[k].text, BlockText) :
              reviews_data[k].rating = ClaimedRating(el)

\* C4 witness: the final scan accepted a card without markers and a card
\* with nine markers, after a review whose marker lookup failed.
C4_Witness ==
    /\ pc = "t_return"
    /\ Len(cards) = 2
    /\ cards[1].stars = 0
    /\ cards[2].stars = 9
    /\ Len(testimonials) = 2
    /\ \E i \in 1..Len(returned.reviews.value) :
           returned.reviews.value[i].text = Jan2023

\* C5 as claimed: no testimonial has a text of length <= 10 or >= 400.
C5_LengthExclusive ==
    \A list \in TestimonialLists :
        \A i \in 1..Len(list) :
            /\ Len(list[i].text) > 10
            /\ Len(list[i].text) < 400

\* the texts of the readable cards of the final scan that carry no
\* boilerplate marker and whose length is from 10 to 400, both included
ClosedRangeTexts ==
    { testimonial_text(cards[i]) :
        i \in { j \in 1..Len(cards) :
                  /\ ~cards[j].stale
                  /\ ~contains(TAKE_A_LOOK, testimonial_text(cards[j]))
                  /\ ~contains(COLLECTION, testimonial_text(cards[j]))
                  /\ Len(testimonial_text(cards[j])) >= 10
                  /\ Len(testimonial_text(cards[j])) <= 400 } }

\* C5 amended: no testimonial has a text of length < 10 or > 400, and the
\* final scan, when the session stays valid through it, accepts every
\* readable card without boilerplate marker whose text has a length in the
\* closed range 10..400, so texts of length exactly 10 and exactly 400 are
\* accepted.
C5_LengthInclusive ==
    /\ \A list \in TestimonialLists :
          \A i \in 1..Len(list) :
              /\ Len(list[i].text) >= 10
              /\ Len(list[i].text) <= 400
    /\ (pc = "t_return" /\ session_valid) =>
          {testimonials[i].text : i \in 1..Len(testimonials)} = ClosedRangeTexts

\* C5 witness: the final scan ends holding a text of length 10 and a text of
\* length 400.
C5_Witness ==
    /\ pc = "t_return"
    /\ Len(testimonials) = 2
    /\ Len(testimonials[1].text) = 10
    /\ Len(testimonials[2].text) = 400

\* the whole of u is a currency amount: an optional currency symbol, then
\* whitespace if with_space allows it, digits, a point and two digits
IsAmount(u, with_space) ==
    \E ns \in 0..1, nw \in 0..Len(u), nd \in 1..Len(u) :
        /\ Len(u) = ns + nw + nd + 3
        /\ nw > 0 => with_space
        /\ ns = 1 => u[1] \in {"$", "€", "£"}
        /\ \A k \in (ns + 1)..(ns + nw) : u[k] \in {" ", "\n", "\t"}
        /\ \A k \in (ns + nw + 1)..(ns + nw + nd) : u[k] \in DigitSet
        /\ u[ns + nw + nd + 1] = "."
        /\ u[ns + nw + nd + 2] \in DigitSet
        /\ u[ns + nw + nd + 3] \in DigitSet

\* the positions of s where a currency amount begins
AmountStarts(s, with_space) ==
    {i \in 1..Len(s) : \E j \in i..Len(s) : IsAmount(SubSeq(s, i, j), with_space)}

\* the currency amounts of s that begin at the first such position
FirstAmounts(s, with_space) ==
    { SubSeq(s, i, j) :
        <<i, j>> \in
          { ij \in (1..Len(s)) \X (1..Len(s)) :
              /\ ij[1] \in AmountStarts(s, with_space)
              /\ \A k \in AmountStarts(s, with_space) : ij[1] <= k
              /\ ij[2] >= ij[1]
              /\ IsAmount(SubSeq(s, ij[1], ij[2]), with_space) } }

UNAVAILABLE == <<"u", "n", "a", "v", "a", "i", "l", "a", "b", "l", "e">>

Widget == <<"W", "i", "d", "g", "e", "t">>

\* the card loop has run over a first page of one readable card
OneCardDone ==
    /\ pc = "p_endpage"
    /\ page_index = 1
    /\ Len(product_cards) = 1
    /\ ~product_cards[1].stale

\* the card of that page has a title that is accepted
OneCardAccepted ==
    LET title == split(strip(product_cards[1].text), "\n")[1]
    IN  title # <<>> /\ lower(title) # LOG_IN

\* the price the record of the one card must have: the first currency
\* amount of the stripped card text, or the sentinel when there is none
PriceIs(with_space, sentinel) ==
    LET raw == strip(product_cards[1].text)
    IN  /\ Len(products) = 1
        /\ IF AmountStarts(raw, with_space) = {}
           THEN products[1].price = sentinel
           ELSE products[1].price \in FirstAmounts(raw, with_space)

\* C6 as claimed: the price is the first substring made of an optional
\* currency symbol, digits, a point and two digits, and "unavailable" when
\* there is none, the product being accepted in both cases.
C6_PriceAsClaimed ==
    (OneCardDone /\ OneCardAccepted) => PriceIs(FALSE, UNAVAILABLE)

\* C6 amended: the price is the first substring made of an optional currency
\* symbol, optional whitespace, digits, a point and two digits, and "N/A"
\* when there is none, the product being accepted in both cases;
\* "Widget\n$12.99 in stock" gives "$12.99", "Widget\nout of stock" "N/A".
C6_PriceAmended ==
    /\ (OneCardDone /\ OneCardAccepted) => PriceIs(TRUE, <<"N", "/", "A">>)
    /\ (OneCardDone /\ product_cards[1].text = WidgetPriced) =>
          products = <<[title |-> Widget,
                        price |-> <<"$", "1", "2", ".", "9", "9">>]>>
    /\ (OneCardDone /\ product_cards[1].text = WidgetOutOfStock) =>
          products = <<[title |-> Widget, price |-> <<"N", "/", "A">>]>>

\* C6 witness: the card "Widget\nout of stock" was accepted with the price
\* "N/A".
C6_Witness ==
    /\ OneCardDone
    /\ product_cards[1].text = WidgetOutOfStock
    /\ Len(products) = 1
    /\ products[1].price = <<"N", "/", "A">>

\* the valid titles of page n that no earlier page carries
NewOn(n) == page_titles[n] \ UNION {page_titles[k] : k \in 1..(n - 1)}

\* C7: collect_products fetches the pages 1, 2, 3, ... in this order, each
\* once; it ends after a page if and only if the page shows no card or adds
\* no record after dedup, and once ended it fetches nothing more.
C7_PaginationStops ==
    /\ [](fetched = [i \in 1..Len(fetched) |-> i])
    /\ [](pc = "p_load" => page_index = Len(fetched) + 1)
    /\ [][(pc = "p_load" /\ pc' # "finally") =>
             /\ fetched' = Append(fetched, page_index)
             /\ pc' = "p_return" <=> product_cards' = <<>>]_vars
    /\ [][pc = "p_endpage" =>
             (pc' = "p_return" <=> NewOn(Len(page_titles)) = {})]_vars
    /\ [][pc # "p_load" => Len(fetched') <= Len(fetched)]_vars
    /\ [][pc = "p_return" => pc' \notin {"p_load", "p_card", "p_endpage"}]_vars

\* C7 witness: page 2 repeated a title of page 1 beside a new one, and the
\* pass is about to fetch page 3.
C7_Witness ==
    /\ pc = "p_load"
    /\ page_index = 3
    /\ page_titles[1] \cap page_titles[2] # {}
    /\ NewOn(2) # {}

\* C8: when collect_products stops after page n its result holds exactly the
\* valid titles (non-empty, not the artifact "log in") found on the pages
\* 1..n, each once; when page 3 repeats the titles of page 2, page 3 is the
\* last page fetched and the result is the union of the titles of pages 1, 2.
C8_ResultIsUnionOfTitles ==
    /\ pc = "p_return" =>
          /\ {products[i].title : i \in 1..Len(products)}
                = UNION {page_titles[k] : k \in 1..Len(page_titles)}
          /\ Len(products) =
                Cardinality(UNION {page_titles[k] : k \in 1..Len(page_titles)})
          /\ \A i \in 1..Len(products) :
                products[i].title # <<>> /\ lower(products[i].title) # LOG_IN
    /\ (Len(page_titles) >= 3 /\ page_titles[3] = page_titles[2]) =>
          /\ Len(fetched) = 3
          /\ pc = "p_return" =>
                {products[i].title : i \in 1..Len(products)}
                    = page_titles[1] \cup page_titles[2]

\* C8 witness: three pages were fetched, page 3 carried the two titles of
\* page 2, and the pass stopped with three products.
C8_Witness ==
    /\ pc = "p_return"
    /\ fetched = <<1, 2, 3>>
    /\ page_titles[3] = page_titles[2]
    /\ Cardinality(page_titles[2]) = 2
    /\ Len(products) = 3

\* C9: once a session is acquired, driver.quit() is called exactly once on
\* every way out of run_scraper, after three finished passes and after a
\* pass that raised; it is never called twice nor while a pass runs.
C9_SessionReleasedOnce ==
    /\ quit_calls <= 1
    /\ (driver # "none" /\ pc \in {"write", "done", "failed"}) => quit_calls = 1
    /\ quit_calls = 1 <=> driver = "quit"
    /\ driver = "quit" => pc \in {"write", "done", "failed"}

\* C9 witness: the reviews pass raised after the products pass returned, and
\* run_scraper is left with the session released once.
C9_Witness ==
    /\ pc = "failed"
    /\ raised
    /\ returned.products.bound
    /\ ~returned.reviews.bound
    /\ quit_calls = 1

\* C10: run_scraper writes at most one document; a written document holds
\* what the three passes returned; and when a pass raises no document is
\* written while driver.quit() is still called.
C10_OneDocumentOrNone ==
    /\ Len(documents) <= 1
    /\ pc = "done" <=> Len(documents) = 1
    /\ documents # <<>> =>
          /\ returned.products.bound
          /\ returned.reviews.bound
          /\ returned.testimonials.bound
          /\ documents[1] = [products     |-> returned.products.value,
                             reviews      |-> returned.reviews.value,
                             testimonials |-> returned.testimonials.value]
    /\ (pc = "failed" /\ driver # "none") =>
          /\ documents = <<>>
          /\ quit_calls = 1

\* C10 witness: the testimonials pass raised after two passes returned
\* records, and run_scraper is left without a document.
C10_Witness ==
    /\ pc = "failed"
    /\ returned.products.value # <<>>
    /\ returned.reviews.value # <<>>
    /\ ~returned.testimonials.bound
    /\ documents = <<>>
    /\ quit_calls = 1

\* C11: once the browser session has become invalid during a pass, the
\* failure propagates through run_scraper: the statements after the try
\* block are not reached and no output document is written.
C11_SessionFailureAborts ==
    ~session_valid =>
        /\ pc \notin {"write", "done"}
        /\ documents = <<>>

ProductPcs == {"p_start", "p_load", "p_card", "p_endpage", "p_return"}

ReviewPcs ==
    {"r_open", "r_find", "r_block", "r_check", "r_scroll", "r_loadmore",
     "r_return"}

TestimonialPcs == {"t_open", "t_scroll", "t_find", "t_card", "t_return"}

\* C12: the passes run in the order products, reviews, testimonials over
\* one open session: a pass is entered only from the return of the one
\* before it (the first from init_browser), so each runs once; while a pass
\* runs the earlier passes have returned, the later ones have not started,
\* and no other pass holds elements of the session.
C12_PassesInOrder ==
    /\ [](pc \in ProductPcs =>
            /\ ~returned.products.bound
            /\ ~returned.reviews.bound
            /\ ~returned.testimonials.bound
            /\ review_blocks = <<>> /\ cards = <<>>)
    /\ [](pc \in ReviewPcs =>
            /\ returned.products.bound
            /\ ~returned.reviews.bound
            /\ ~returned.testimonials.bound
            /\ product_cards = <<>> /\ cards = <<>>)
    /\ [](pc \in TestimonialPcs =>
            /\ returned.products.bound
            /\ returned.reviews.bound
            /\ ~returned.testimonials.bound
            /\ product_cards = <<>> /\ review_blocks = <<>>)
    /\ [](pc \in ProductPcs \cup ReviewPcs \cup TestimonialPcs =>
            driver = "open" /\ quit_calls = 0)
    /\ [][pc' = "start" => pc = "start"]_vars
    /\ [][(pc' \in ProductPcs /\ pc \notin ProductPcs) => pc = "start"]_vars
    /\ [][(pc' \in ReviewPcs /\ pc \notin ReviewPcs) => pc = "p_return"]_vars
    /\ [][(pc' \in TestimonialPcs /\ pc \notin TestimonialPcs) =>
             pc = "r_return"]_vars

\* C12 witness: the third pass reads a card after the first two passes
\* returned records.
C12_Witness ==
    /\ pc = "t_card"
    /\ returned.products.value # <<>>
    /\ returned.reviews.value # <<>>

C14_ScrollThenOneScan ==
    /\ [](pc \in {"t_open", "t_scroll", "t_find"} =>
            cards = <<>> /\ testimonials = <<>>)
    /\ [][pc = "t_scroll" => pc' \in {"t_scroll", "t_find", "finally"}]_vars
    /\ [][(pc = "t_scroll" /\ pc' = "t_scroll") =>
             /\ new_height' # last_height
             /\ last_height' = new_height']_vars
    /\ [][(pc = "t_scroll" /\ pc' = "t_find") =>
             /\ new_height' = last_height
             /\ last_height' = last_height]_vars
    /\ [][pc' = "t_find" => pc \in {"t_scroll", "t_find"}]_vars
    /\ [][pc = "t_find" => pc' \in {"t_card", "t_return", "finally"}]_vars
    /\ [][pc = "t_card" =>
             /\ pc' \in {"t_card", "t_return"}
             /\ cards' = cards
             /\ pc' = "t_card" => card_i' = card_i + 1 \/ card_i' = card_i]_vars
    /\ [][pc = "t_return" => pc' = "finally"]_vars

\* C14 witness: the first scroll measured a new height, and the loop is
\* about to scroll again.
C14_Witness ==
    /\ pc = "t_scroll"
    /\ new_height # 0
    /\ new_height = last_height

\* the step taken is one iteration of a card or block loop
LoopStep == card_i' = card_i + 1

\* C15: in each of the three passes, the iteration over an element whose
\* text cannot be read because the element is stale adds no record, raises
\* nothing and ends no loop: the lists are left as they are and the loop
\* goes on to the next element of the same scan, or past the last one.
C15_ElementFailureSwallowed ==
    /\ [][(pc = "p_card" /\ product_cards[card_i].stale /\ LoopStep) =>
             /\ products' = products
             /\ newly_added' = newly_added
             /\ ~raised'
             /\ pc' = IF card_i < Len(product_cards)
                      THEN "p_card" ELSE "p_endpage"]_vars
    /\ [][(pc = "r_block" /\ review_blocks[card_i].stale /\ LoopStep) =>
             /\ reviews_data' = reviews_data
             /\ reached_old_reviews' = reached_old_reviews
             /\ ~raised'
             /\ pc' = IF card_i < Len(review_blocks)
                      THEN "r_block" ELSE "r_check"]_vars
    /\ [][(pc = "r_block" /\ review_blocks[card_i].stale /\ ~LoopStep) =>
             pc' = pc /\ ~raised']_vars
    /\ [][(pc = "t_card" /\ cards[card_i].stale /\ LoopStep) =>
             /\ testimonials' = testimonials
             /\ ~raised'
             /\ pc' = IF card_i < Len(cards) THEN "t_card" ELSE "t_return"]_vars
    /\ [][(pc \in {"p_card", "t_card"} /\ ~LoopStep) =>
             pc' = pc /\ ~raised']_vars

\* C15 witness: the scan of the testimonials read a stale card first and
\* accepted the card after it, in a run whose reviews pass returned records.
C15_Witness ==
    /\ pc = "t_return"
    /\ Len(cards) = 2
    /\ cards[1].stale
    /\ Len(testimonials) = 1
    /\ returned.reviews.value # <<>>

\* the text carries one of the two boilerplate markers
Boilerplate(text) == contains(TAKE_A_LOOK, text) \/ contains(COLLECTION, text)

\* C16: no testimonial held, returned or written contains "Take a look" or
\* "collection", and the iteration over a card whose text contains one of
\* them adds no record and goes on to the next card of the scan.
C16_NoBoilerplate ==
    /\ [](\A list \in TestimonialLists :
            \A i \in 1..Len(list) : ~Boilerplate(list[i].text))
    /\ [][(/\ pc = "t_card"
           /\ Boilerplate(testimonial_text(cards[card_i]))
           /\ LoopStep) =>
             /\ testimonials' = testimonials
             /\ ~raised'
             /\ pc' = IF card_i < Len(cards) THEN "t_card" ELSE "t_return"]_vars

\* C16 witness: the scan met a card with "collection" first and accepted
\* the card after it.
C16_Witness ==
    /\ pc = "t_return"
    /\ Len(cards) = 2
    /\ cards[1].text = BoilerCollection
    /\ Len(testimonials) = 1

\* C17: when init_browser fails run_scraper is left at once: without a
\* session no statement of a pass is ever reached, and the run that failed
\* to start has fetched no page, holds no element and no record, has
\* returned and written nothing, and takes no further step.
C17_StartFailureAborts ==
    /\ [](driver = "none" => pc \in {"start", "aborted"})
    /\ [](pc = "aborted" =>
            /\ driver = "none"
            /\ quit_calls = 0
            /\ NoLocals
            /\ NoOutput)
    /\ [][pc' = "aborted" => pc \in {"start", "aborted"}]_vars
    /\ [][pc = "aborted" => pc' = "aborted"]_vars

\* C17 witness: init_browser failed.
C17_Witness ==
    /\ pc = "aborted"
    /\ driver = "none"
    /\ documents = <<>>

\* C18: collect_reviews starts a scan at its entry and after a load-more
\* click that was followed by more blocks than the count taken before the
\* click, and at no other time; every scan takes all the blocks loaded and
\* reads them from the first; so scan k sees at least k - 1 blocks, a
\* container of at most MaxBlocks blocks is scanned at most MaxBlocks + 1
\* times, and the pass ends.
C18_ScansBounded ==
    /\ [][(pc' = "r_find" /\ pc # "r_find") =>
             \/ pc = "r_open"
             \/ /\ pc = "r_loadmore"
                /\ count_before' = Len(review_blocks)
                /\ Len(dom_reviews') > count_before']_vars
    /\ [][(pc = "r_find" /\ pc' \in {"r_block", "r_check"}) =>
             /\ review_blocks' = dom_reviews
             /\ card_i' = 1
             /\ scans' = scans + 1]_vars
    /\ [][scans' # scans => (pc = "r_find" \/ scans' = 0)]_vars
    /\ []((pc = "r_check" /\ ~reached_old_reviews) =>
             card_i = Len(review_blocks) + 1)
    /\ [](scans >= 1 => scans <= Len(review_blocks) + 1)
    /\ [](scans <= MaxBlocks + 1)
    /\ <>(pc \in {"t_open", "finally"})

\* C18 witness: every load-more brought one block, and the last scan, scan
\* MaxBlocks + 1 over a container that began empty, is done.
C18_Witness ==
    /\ pc = "r_check"
    /\ scans = MaxBlocks + 1
    /\ Len(review_blocks) = MaxBlocks

\* the distinct valid titles the product source can ever show
DistinctValidTitles ==
    { parsed_card(c.text).title :
        c \in { e \in SiteProducts(site) :
                   ~e.stale /\ valid_title(parsed_card(e.text).title) } }

\* C19: collect_products ends on a source with D distinct valid titles,
\* whatever the pages show: every page after which the pass goes on added a
\* title no earlier page carried, the records are distinct valid titles of
\* the source, so at most D + 1 pages are fetched and the pass returns or
\* leaves by an exception.
C19_ProductsTerminate ==
    /\ [][(pc = "p_endpage" /\ pc' = "p_load") =>
             /\ NewOn(Len(page_titles)) # {}
             /\ page_index' = page_index + 1]_vars
    /\ [](pc \in {"p_load", "p_card", "p_endpage", "p_return"} =>
             /\ {products[i].title : i \in 1..Len(products)}
                    \subseteq DistinctValidTitles
             /\ Len(products) <= Cardinality(DistinctValidTitles))
    /\ [](pc = "p_load" => Len(fetched) <= Len(products))
    /\ [](Len(fetched) <= Cardinality(DistinctValidTitles) + 1)
    /\ <>(pc \in {"r_open", "finally"})

\* C19 witness: the source has three valid titles, three pages brought one
\* new title each and a fourth, non-empty page brought none: four pages
\* were fetched and the pass returns.
C19_Witness ==
    /\ pc = "p_return"
    /\ Cardinality(DistinctValidTitles) = 3
    /\ fetched = <<1, 2, 3, 4>>
    /\ product_cards # <<>>
    /\ Len(products) = 3

\* the blocks of the container that carry a date and can be read
DatedAt(i) == ~dom_reviews[i].stale /\ ParsedBlocks[dom_reviews[i]].dated

YearAt(i) == ParsedBlocks[dom_reviews[i]].year

\* the dated blocks of the container come in non-increasing year order
YearsNonIncreasing ==
    \A i, j \in 1..Len(dom_reviews) :
        (i < j /\ DatedAt(i) /\ DatedAt(j)) => YearAt(i) >= YearAt(j)

\* the place of the first block dated before 2023, past the end when none
FirstOld ==
    LET old == {i \in 1..Len(dom_reviews) : DatedAt(i) /\ YearAt(i) < 2023}
    IN  IF old = {} THEN Len(dom_reviews) + 1
        ELSE CHOOSE i \in old : \A j \in old : i <= j

\* the texts of the dated blocks of 2023 and later among the first n blocks
RecentTexts(n) ==
    { BlockText(dom_reviews[i]) :
        i \in {j \in 1..n : DatedAt(j) /\ YearAt(j) >= 2023} }

\* C20: when the blocks loaded come in non-increasing year order and none
\* fails to be read, collect_reviews returns one record for each distinct
\* text of the dated blocks of 2023 and later, and no other record; in any
\* order, a record is only ever taken from a block placed before the first
\* block dated before 2023, so a block of 2023 or later placed after it is
\* not collected.
C20_CompleteUnderOrder ==
    /\ (/\ pc = "r_return"
        /\ YearsNonIncreasing
        /\ \A i \in 1..Len(dom_reviews) : ~dom_reviews[i].stale)
       => /\ {reviews_data[k].text : k \in 1..Len(reviews_data)}
                = RecentTexts(Len(dom_reviews))
          /\ Len(reviews_data) = Cardinality(RecentTexts(Len(dom_reviews)))
    /\ {reviews_data[k].text : k \in 1..Len(reviews_data)}
          \subseteq RecentTexts(FirstOld - 1)
    /\ pc = "r_return" =>
          {reviews_data[k].text : k \in 1..Len(reviews_data)}
             = RecentTexts(FirstOld - 1)

\* C20 witness, completeness: two load-more clicks brought a block each, the
\* control then went away; the three blocks are of 2024, 2024 and 2023 and
\* the pass returns two records, one for the text the first two share.
C20_Witness ==
    /\ pc = "r_return"
    /\ ~reached_old_reviews
    /\ scans = 3
    /\ count_before = 2
    /\ Len(dom_reviews) = 3
    /\ dom_reviews[1].text = Mar2024
    /\ dom_reviews[2].text = Mar2024
    /\ dom_reviews[3].text = Jan2023
    /\ Len(reviews_data) = 2

\* C20, order violated: a block of 2024 placed after a block of 2022 is
\* loaded and the pass returns without a record of it.
C20_UnderCollects ==
    /\ pc = "r_return"
    /\ Len(dom_reviews) = 3
    /\ dom_reviews[1].text = Jan2023
    /\ dom_reviews[2].text = Dec2022
    /\ dom_reviews[3].text = Mar2024
    /\ \A k \in 1..Len(reviews_data) :
          reviews_data[k].text # BlockText(dom_reviews[3])

====
